---- MODULE Spec2Model ----
(***************************************************************************)
(* Citation-graph construction engine of research-engine-backend.          *)
(*                                                                         *)
(* The module models buildGraph (graph.js, multi-level version) as a state *)
(* machine: the seed lookup, the two concurrently running sides            *)
(* (expandSide("references") and expandSide("cited_by")) whose provider    *)
(* responses arrive in any order, the per-level join with its dedup /      *)
(* re-rank / truncate / commit, and the final assembly.  The provider      *)
(* (OpenAlex) is the environment: it holds one record per work and may     *)
(* revise a record's publication year while a request is in flight.        *)
(*                                                                         *)
(* Work ids are modelled as small integers whose integer order is the      *)
(* string order of the ids ("<" and localeCompare agree on ids of the form *)
(* https://openalex.org/W<digits>).                                        *)
(***************************************************************************)
EXTENDS Integers, Sequences, FiniteSets, TLC

\* ---------------------------------------------------------------- bounds
\* largest publication year the provider holds (years are 1..MaxYear)
MaxYear == 2
\* largest limit a request is made with (the code allows up to LIMIT_MAX)
MaxLimit == 2
\* how many times the provider revises a record during one request
MaxUpdates == 1
\* how many provider fetches answer with a non-success response during one request
MaxFaults == 1
\* how many addNode calls a sequence of calls holds
MaxCalls == 3
\* longest depth / limit query string
MaxStrLen == 2
\* largest magnitude of a depth / limit passed as a number
MaxNum == 31
\* the number of distinct ids in an argument of getWorksByIds
MaxIds == 81

\* the work ids of the model
Works == {1, 2, 3}

\* the provider's cited_by_count of each work: works 1 and 3 tie (the id
\* decides their rank), work 2 outranks the lower id 1
CitedByCount == <<0, 1, 0>>

\* ------------------------------------------------------ program constants
DEPTH_MIN == 1
DEPTH_MAX == 3
DEPTH_DEFAULT == 2
LIMIT_MIN == 1
LIMIT_MAX == 30
LIMIT_DEFAULT == 20
REFERENCE_CANDIDATE_CAP == 200
CITERS_PAGE_CAP == 100
CITERS_FACTOR == 3

\* JavaScript values that are not integers, as integers outside the data range
Null == -1
NaN == -2

Sides == {"references", "cited_by"}

Min(a, b) == IF a <= b THEN a ELSE b
Max(a, b) == IF a >= b THEN a ELSE b

Range(s) == {s[i] : i \in DOMAIN s}

RECURSIVE SetToSeq(_)
\* the elements of a set of integers as an ascending sequence
SetToSeq(S) ==
  IF S = {} THEN <<>>
  ELSE LET m == CHOOSE x \in S : \A y \in S : x <= y
       IN <<m>> \o SetToSeq(S \ {m})

RECURSIVE Flat(_)
\* Array.prototype.flat over a sequence of sequences
Flat(ss) == IF ss = <<>> THEN <<>> ELSE Head(ss) \o Flat(Tail(ss))

Take(s, n) == SubSeq(s, 1, Min(n, Len(s)))

\* ------------------------------------------------- parsing depth and limit
\* A JavaScript value passed as depth or limit: undefined (the query
\* parameter is absent), a number, or a string of characters.
Undefined == [kind |-> "undefined", num |-> 0, str |-> <<>>]
NumberValue(n) == [kind |-> "number", num |-> n, str |-> <<>>]
StringValue(s) == [kind |-> "string", num |-> 0, str |-> s]

Digits == <<"0", "1", "2", "3", "4", "5", "6", "7", "8", "9">>
IsDigit(c) == \E i \in DOMAIN Digits : Digits[i] = c
DigitValue(c) == (CHOOSE i \in DOMAIN Digits : Digits[i] = c) - 1

RECURSIVE NatString(_)
\* the decimal digits of a natural number
NatString(n) ==
  IF n < 10 THEN <<Digits[n + 1]>> ELSE NatString(n \div 10) \o <<Digits[(n % 10) + 1]>>

\* String(n) of an integer
DecimalString(n) == IF n < 0 THEN <<"-">> \o NatString(-n) ELSE NatString(n)

\* String(value), the conversion parseInt applies to its argument
StringOf(v) ==
  IF v.kind = "undefined" THEN <<"u", "n", "d", "e", "f", "i", "n", "e", "d">>
  ELSE IF v.kind = "number" THEN DecimalString(v.num)
  ELSE v.str

RECURSIVE SkipWhitespace(_)
SkipWhitespace(s) ==
  IF s # <<>> /\ Head(s) = " " THEN SkipWhitespace(Tail(s)) ELSE s

RECURSIVE DigitPrefix(_)
\* the longest prefix of s made of digits
DigitPrefix(s) ==
  IF s # <<>> /\ IsDigit(Head(s)) THEN <<Head(s)>> \o DigitPrefix(Tail(s)) ELSE <<>>

RECURSIVE DigitsValue(_)
DigitsValue(ds) ==
  IF ds = <<>> THEN 0 ELSE 10 * DigitsValue(SubSeq(ds, 1, Len(ds) - 1)) + DigitValue(ds[Len(ds)])

\* Number.parseInt(value, 10): [nan, val]
ParseInt(v) ==
  LET s == SkipWhitespace(StringOf(v))
      signed == s # <<>> /\ Head(s) \in {"-", "+"}
      negative == s # <<>> /\ Head(s) = "-"
      ds == DigitPrefix(IF signed THEN Tail(s) ELSE s)
  IN IF ds = <<>> THEN [nan |-> TRUE, val |-> 0]
     ELSE [nan |-> FALSE, val |-> IF negative THEN -DigitsValue(ds) ELSE DigitsValue(ds)]

\* clampInteger without the clamp: the parsed integer is returned as it is
clampInteger_NoClamp(value, min, max, fallback) ==
  IF ParseInt(value).nan THEN fallback ELSE ParseInt(value).val

\* clampInteger answering the lower bound, not the fallback, when nothing parses
clampInteger_NoFallback(value, min, max, fallback) ==
  IF ParseInt(value).nan THEN min ELSE Min(max, Max(min, ParseInt(value).val))

clampInteger(value, min, max, fallback) ==
  LET parsed == ParseInt(value)
  IN IF parsed.nan THEN fallback ELSE Min(max, Max(min, parsed.val))

parseGraphParams(d, l) ==
  [depth |-> clampInteger(d, DEPTH_MIN, DEPTH_MAX, DEPTH_DEFAULT),
   limit |-> clampInteger(l, LIMIT_MIN, LIMIT_MAX, LIMIT_DEFAULT)]

\* the characters of the query strings of the model
Alphabet == {"0", "2", "5", "9", "-", "x"}

RECURSIVE StringsUpTo(_)
StringsUpTo(n) ==
  IF n = 0 THEN {<<>>}
  ELSE LET shorter == StringsUpTo(n - 1)
       IN shorter \cup {Append(t, c) : t \in shorter, c \in Alphabet}

\* the depth and limit inputs of the model
ParamInputs ==
  {Undefined} \cup {NumberValue(n) : n \in (-MaxNum)..MaxNum}
              \cup {StringValue(t) : t \in StringsUpTo(MaxStrLen)}

\* ------------------------------------------------------------- the provider
\* A provider row: present (the provider has a record), publication_year
\* (Null or a year), cited_by_count, referenced_works (ids, ascending).
NoRow == [present |-> FALSE, publication_year |-> Null, cited_by_count |-> 0,
          referenced_works |-> <<>>]

Row(year, refs) ==
  [present |-> TRUE, publication_year |-> year, cited_by_count |-> 0,
   referenced_works |-> SetToSeq(refs)]

Years == {Null} \cup (1..MaxYear)

\* no work cites itself
RefChoices == {r \in [Works -> SUBSET Works] : \A w \in Works : w \notin r[w]}

WithCounts(d) ==
  [w \in Works |-> IF d[w].present THEN [d[w] EXCEPT !.cited_by_count = CitedByCount[w]]
                   ELSE d[w]]

\* Provider data sets of the model.
\* Structures: every citation structure over the three works, all of year 1,
\* with or without a record of work 3 (which may still be listed as a reference).
Structures ==
  {WithCounts([w \in Works |-> IF w = 3 /\ ~has3 THEN NoRow ELSE Row(1, r[w])]) :
     r \in RefChoices, has3 \in BOOLEAN}

\* YearProfiles: every work cites the two others, the years are free.
YearProfiles ==
  {WithCounts([w \in Works |-> Row(y[w], Works \ {w})]) : y \in [Works -> Years]}

\* TwoWorks: works 1 and 2 only, citing each other or not, the years free.
TwoWorks ==
  {WithCounts([w \in Works |-> IF w = 3 THEN NoRow ELSE Row(y[w], r[w] \ {3})]) :
     y \in [Works -> Years], r \in RefChoices}

\* A scenario is a data set, the number of revisions the provider will make
\* during the request, the number of fetches it will answer with a non-success
\* response, and the request's limit: revisions and failing fetches are
\* explored over TwoWorks, where a work has at most one neighbour and every
\* limit behaves like the lowest.
Scenarios ==
  [db : Structures \cup YearProfiles, updates : {0}, faults : {0}, limit : 1..MaxLimit]
  \cup [db : TwoWorks, updates : {MaxUpdates}, faults : {0}, limit : {1}]
  \cup [db : TwoWorks, updates : {0}, faults : {MaxFaults}, limit : {1}]

\* The null work (a lookup miss): id 0 is no work id.
NullWork == [id |-> 0, year |-> Null, cited_by_count |-> 0, referenced_works |-> <<>>]

\* normalizeWork: publication_year || null turns a missing or zero year into null.
normalizeWork(id, row) ==
  [id |-> id,
   year |-> IF row.publication_year = Null \/ row.publication_year = 0
            THEN Null ELSE row.publication_year,
   cited_by_count |-> row.cited_by_count,
   referenced_works |-> row.referenced_works]

\* normalizeId / toOpenAlexId: an input that names a work id normalizes to it,
\* anything else to null.
toOpenAlexId(v) == IF v \in Works THEN v ELSE Null

\* getWorkById answering a record with no data when the provider has none
getWorkById_MissAsRecord(d, id) ==
  IF toOpenAlexId(id) = Null THEN NullWork ELSE normalizeWork(id, d[id])

\* getWorkById against the provider data d.
getWorkById(d, id) ==
  IF toOpenAlexId(id) = Null THEN NullWork
  ELSE IF d[id].present THEN normalizeWork(id, d[id]) ELSE NullWork

\* sortByInfluence's comparator: cited_by_count descending, then id ascending.
InfluenceBefore(a, b) ==
  \/ a.cited_by_count > b.cited_by_count
  \/ a.cited_by_count = b.cited_by_count /\ a.id < b.id

RECURSIVE InsertByInfluence(_, _)
InsertByInfluence(w, sorted) ==
  IF sorted = <<>> THEN <<w>>
  ELSE IF InfluenceBefore(w, Head(sorted)) THEN <<w>> \o sorted
  ELSE <<Head(sorted)>> \o InsertByInfluence(w, Tail(sorted))

RECURSIVE sortByInfluence(_)
\* a stable sort of a sequence of works
sortByInfluence(works) ==
  IF works = <<>> THEN <<>>
  ELSE InsertByInfluence(works[Len(works)], sortByInfluence(SubSeq(works, 1, Len(works) - 1)))

\* getWorksByIds: the records of the ids the provider has, in id order.
getWorksByIds(d, ids) ==
  LET wanted == {toOpenAlexId(ids[i]) : i \in DOMAIN ids} \ {Null}
      found == {i \in wanted : d[i].present}
      order == SetToSeq(found)
  IN [k \in DOMAIN order |-> normalizeWork(order[k], d[order[k]])]

\* getCitingWorks: the works citing workId, sorted by the provider
\* (cited_by_count:desc, ties in id order), first page of perPage rows.
getCitingWorks(d, workId, perPage) ==
  IF toOpenAlexId(workId) = Null THEN <<>>
  ELSE LET citing == {i \in Works : d[i].present /\ workId \in Range(d[i].referenced_works)}
           order == SetToSeq(citing)
           rows == [k \in DOMAIN order |-> normalizeWork(order[k], d[order[k]])]
       IN Take(sortByInfluence(rows), perPage)


\* --------------------------------------------------------- pure graph code
\* Number(year): null converts to 0, a number to itself, anything else to NaN.
ToNumber(v) == IF v = Null THEN 0 ELSE IF v >= 0 THEN v ELSE NaN

IsFinite(n) == n # NaN

isTemporallyConsistent(parent, child, side) ==
  LET parentYear == ToNumber(parent.year)
      childYear == ToNumber(child.year)
  IN IF ~IsFinite(parentYear) \/ ~IsFinite(childYear) THEN TRUE
     ELSE IF side = "references" THEN childYear <= parentYear
     ELSE childYear >= parentYear

\* Map.has / Map.get on a map kept as the sequence of its values in
\* insertion order (every value carries its key: the id).
HasId(m, id) == \E i \in DOMAIN m : m[i].id = id
IndexOfId(m, id) == CHOOSE i \in DOMAIN m : m[i].id = id

\* new Map(nodes.map(node => [node.id, node])).get(id): the last entry wins.
LastIndexOfId(m, id) ==
  CHOOSE i \in DOMAIN m : m[i].id = id /\ \A j \in DOMAIN m : m[j].id = id => j <= i

\* isLinkTemporallyConsistent applying the rule of a reference to every link
isLinkTemporallyConsistent_OneRule(link, nodes) ==
  IF ~HasId(nodes, link.source) \/ ~HasId(nodes, link.target) THEN FALSE
  ELSE isTemporallyConsistent(nodes[LastIndexOfId(nodes, link.source)],
                              nodes[LastIndexOfId(nodes, link.target)], "references")

isLinkTemporallyConsistent(link, nodes) ==
  IF ~HasId(nodes, link.source) \/ ~HasId(nodes, link.target) THEN FALSE
  ELSE isTemporallyConsistent(nodes[LastIndexOfId(nodes, link.source)],
                              nodes[LastIndexOfId(nodes, link.target)], link.type)

\* cacheWork that stores nothing
cacheWork_Never(wc, work) == wc

\* cacheWork: workCache.set(work.id, work) when the work has an id.
cacheWork(wc, work) ==
  IF work.id = 0 THEN wc
  ELSE [i \in DOMAIN wc \cup {work.id} |-> IF i = work.id THEN work ELSE wc[i]]

\* getCachedWork
getCachedWork(wc, id) == IF id \in DOMAIN wc THEN wc[id] ELSE NullWork

\* addNode with the center's side not protected: a later side overwrites it
addNode_CenterNotKept(nm, work, side, nodeDepth) ==
  LET next == [id |-> work.id, year |-> work.year,
               cited_by_count |-> work.cited_by_count,
               side |-> side, depth |-> nodeDepth]
  IN IF ~HasId(nm, work.id) THEN Append(nm, next)
     ELSE LET k == IndexOfId(nm, work.id)
              existing == nm[k]
              mergedSide == IF existing.side = side THEN existing.side
                            ELSE IF side = "center" THEN "center" ELSE "both"
          IN [nm EXCEPT ![k] = [next EXCEPT !.side = mergedSide,
                                             !.depth = Min(existing.depth, nodeDepth)]]

\* addNode with the depth of the latest call kept instead of the least
addNode_LatestDepth(nm, work, side, nodeDepth) ==
  LET next == [id |-> work.id, year |-> work.year,
               cited_by_count |-> work.cited_by_count,
               side |-> side, depth |-> nodeDepth]
  IN IF ~HasId(nm, work.id) THEN Append(nm, next)
     ELSE LET k == IndexOfId(nm, work.id)
              existing == nm[k]
              mergedSide == IF existing.side = side \/ existing.side = "center"
                            THEN existing.side
                            ELSE IF side = "center" THEN "center" ELSE "both"
          IN [nm EXCEPT ![k] = [next EXCEPT !.side = mergedSide]]

\* addNode keeping the side the node was first added with
addNode_FirstSideKept(nm, work, side, nodeDepth) ==
  LET next == [id |-> work.id, year |-> work.year,
               cited_by_count |-> work.cited_by_count,
               side |-> side, depth |-> nodeDepth]
  IN IF ~HasId(nm, work.id) THEN Append(nm, next)
     ELSE LET k == IndexOfId(nm, work.id)
              existing == nm[k]
          IN [nm EXCEPT ![k] = [next EXCEPT !.side = existing.side,
                                             !.depth = Min(existing.depth, nodeDepth)]]

\* addNode taking the side of the latest call, the center excepted
addNode_SideOverwritten(nm, work, side, nodeDepth) ==
  LET next == [id |-> work.id, year |-> work.year,
               cited_by_count |-> work.cited_by_count,
               side |-> side, depth |-> nodeDepth]
  IN IF ~HasId(nm, work.id) THEN Append(nm, next)
     ELSE LET k == IndexOfId(nm, work.id)
              existing == nm[k]
              mergedSide == IF existing.side = "center" THEN "center" ELSE side
          IN [nm EXCEPT ![k] = [next EXCEPT !.side = mergedSide,
                                             !.depth = Min(existing.depth, nodeDepth)]]

\* addNode on the node map (cacheWork is applied by the caller, see CommitAll).
addNode(nm, work, side, nodeDepth) ==
  LET next == [id |-> work.id, year |-> work.year,
               cited_by_count |-> work.cited_by_count,
               side |-> side, depth |-> nodeDepth]
  IN IF ~HasId(nm, work.id) THEN Append(nm, next)
     ELSE LET k == IndexOfId(nm, work.id)
              existing == nm[k]
              mergedSide == IF existing.side = side \/ existing.side = "center"
                            THEN existing.side
                            ELSE IF side = "center" THEN "center" ELSE "both"
          IN [nm EXCEPT ![k] = [next EXCEPT !.side = mergedSide,
                                             !.depth = Min(existing.depth, nodeDepth)]]

\* the key `${source}->${target}:${type}` of a link
LinkKey(l) == <<l.source, l.target, l.type>>

HasLink(lm, key) == \E i \in DOMAIN lm : LinkKey(lm[i]) = key

\* addLink without the has(key) check
addLink_NoHasCheck(lm, source, target, type, direction) ==
  Append(lm, [source |-> source, target |-> target, type |-> type,
              direction |-> direction])

addLink(lm, source, target, type, direction) ==
  IF HasLink(lm, <<source, target, type>>) THEN lm
  ELSE Append(lm, [source |-> source, target |-> target, type |-> type,
                   direction |-> direction])

SideTag(side) == IF side = "references" THEN "backward" ELSE "forward"

\* getTopReferences without the ranking: the first sideLimit resolved references
getTopReferences_Unranked(d, parentWork, sideLimit) ==
  Take(getWorksByIds(d, Take(parentWork.referenced_works, REFERENCE_CANDIDATE_CAP)), sideLimit)

\* getTopReferences against provider data d.
getTopReferences(d, parentWork, sideLimit) ==
  LET refs == parentWork.referenced_works
      candidates == Take(refs, REFERENCE_CANDIDATE_CAP)
      works == getWorksByIds(d, candidates)
      resolved == {i \in DOMAIN refs : \E k \in DOMAIN works : works[k].id = refs[i]}
      order == SetToSeq(resolved)
      ordered == [k \in DOMAIN order |->
                    works[CHOOSE j \in DOMAIN works : works[j].id = refs[order[k]]]]
  IN IF refs = <<>> THEN <<>> ELSE Take(sortByInfluence(ordered), sideLimit)

\* getTopCitations against provider data d.
getTopCitations(d, parentId, sideLimit) ==
  Take(sortByInfluence(getCitingWorks(d, parentId, Min(CITERS_PAGE_CAP, sideLimit * CITERS_FACTOR))),
       sideLimit)

\* getWorkOrFetch: the cached record, else a lookup whose result is cached.
getWorkOrFetch(wc, d, id) ==
  IF getCachedWork(wc, id).id # 0 THEN getCachedWork(wc, id) ELSE getWorkById(d, id)

\* the loop of expandSide going on on cycles for ever: no bound on the level
LoopContinues_NoDepthBound(lvl, dep, front) == front # <<>>

\* the loop of expandSide enters level lvl: for (level <= depth), break on an
\* empty frontier
LoopContinues(lvl, dep, front) == lvl <= dep /\ front # <<>>

\* the per-parent limit not divided among the frontier members
perParentLimitOf_Undivided(lim, frontierLength) == lim

perParentLimitOf(lim, frontierLength) == Max(1, lim \div frontierLength)

\* One parent's task of expandSide once its children fetch has answered:
\* the (parent, child) pairs that pass the temporal filter.
ExpandParent(d, parent, side, perParentLimit) ==
  IF parent.id = 0 THEN <<>>
  ELSE LET children == IF side = "references"
                       THEN getTopReferences(d, parent, perParentLimit)
                       ELSE getTopCitations(d, parent.id, perParentLimit)
           filtered == SelectSeq(children, LAMBDA child : isTemporallyConsistent(parent, child, side))
       IN [k \in DOMAIN filtered |-> [parent |-> parent, child |-> filtered[k]]]

RECURSIVE UniqueByChild_FirstWins(_, _)
\* the uniqueByChild loop without the lower-parent replacement
UniqueByChild_FirstWins(flattened, acc) ==
  IF flattened = <<>> THEN acc
  ELSE IF \E i \in DOMAIN acc : acc[i].child.id = Head(flattened).child.id
       THEN UniqueByChild_FirstWins(Tail(flattened), acc)
       ELSE UniqueByChild_FirstWins(Tail(flattened), Append(acc, Head(flattened)))

RECURSIVE UniqueByChild(_, _)
\* the uniqueByChild loop: entries in first-appearance order of the child, the
\* entry of a child replaced when a later entry has a lower parent id.
UniqueByChild(flattened, acc) ==
  IF flattened = <<>> THEN acc
  ELSE LET entry == Head(flattened)
           hit == {i \in DOMAIN acc : acc[i].child.id = entry.child.id}
       IN IF hit = {} THEN UniqueByChild(Tail(flattened), Append(acc, entry))
          ELSE LET k == CHOOSE i \in hit : TRUE
               IN IF entry.parent.id < acc[k].parent.id
                  THEN UniqueByChild(Tail(flattened), [acc EXCEPT ![k] = entry])
                  ELSE UniqueByChild(Tail(flattened), acc)

RECURSIVE InsertEntry(_, _)
InsertEntry(e, sorted) ==
  IF sorted = <<>> THEN <<e>>
  ELSE IF InfluenceBefore(e.child, Head(sorted).child) THEN <<e>> \o sorted
  ELSE <<Head(sorted)>> \o InsertEntry(e, Tail(sorted))

RECURSIVE SortEntries(_)
\* the sort of the unique entries by (child.cited_by_count desc, child.id asc)
SortEntries(es) ==
  IF es = <<>> THEN <<>>
  ELSE InsertEntry(es[Len(es)], SortEntries(SubSeq(es, 1, Len(es) - 1)))

\* the pairs a level commits: dedup, global re-rank, truncation to limit
LimitedOf(expansionSets, lim) ==
  Take(SortEntries(UniqueByChild(Flat(expansionSets), <<>>)), lim)

RECURSIVE CommitAll(_, _, _, _)
\* the commit loop of a level over `limited`: addNode (with its cacheWork),
\* addLink; g is [nodeMap, linkMap, workCache].
CommitAll(limited, side, lvl, g) ==
  IF limited = <<>> THEN g
  ELSE LET e == Head(limited)
       IN CommitAll(Tail(limited), side, lvl,
            [nodeMap |-> addNode(g.nodeMap, e.child, SideTag(side), lvl),
             linkMap |-> addLink(g.linkMap, e.parent.id, e.child.id, side, SideTag(side)),
             workCache |-> cacheWork(g.workCache, e.child)])

RECURSIVE DedupIds(_, _)
\* [...nextFrontier]: the child ids of limited in insertion order, once each
DedupIds(limited, acc) ==
  IF limited = <<>> THEN acc
  ELSE IF Head(limited).child.id \in Range(acc) THEN DedupIds(Tail(limited), acc)
  ELSE DedupIds(Tail(limited), Append(acc, Head(limited).child.id))

\* the final assembly without the re-validation of the links
FinalLinks_NoRevalidation(nm, lm) == lm

\* connectedNodeIds collecting the center and the link targets only
ConnectedNodeIds_TargetsOnly(centerId, links) ==
  {centerId} \cup {links[i].target : i \in DOMAIN links}

\* final assembly
FinalLinks(nm, lm) == SelectSeq(lm, LAMBDA link : isLinkTemporallyConsistent(link, nm))

ConnectedNodeIds(centerId, links) ==
  {centerId} \cup {links[i].source : i \in DOMAIN links}
             \cup {links[i].target : i \in DOMAIN links}

ConnectedNodes(nm, ids) == SelectSeq(nm, LAMBDA node : node.id \in ids)


\* ------------------------------------------------------------ the machine
VARIABLES
  db,            \* the provider's rows, by work id
  updates,       \* how many revisions the provider will still make during the request
  seedInput,     \* buildGraph's workIdInput
  depth,         \* depth after parseGraphParams
  limit,         \* limit after parseGraphParams
  phase,         \* "idle", "running", "returned", "failed"
  result,        \* "none", "graph", "BAD_WORK_ID", "NOT_FOUND"
  center,        \* the seed's record (NullWork before the lookup)
  nodeMap,       \* values of nodeMap in insertion order
  linkMap,       \* values of linkMap in insertion order
  workCache,     \* workCache: id -> work
  level,         \* per side: the level being expanded
  frontier,      \* per side: the frontier (ids, in order)
  parents,       \* per side: the parent record each frontier task holds
  pending,       \* per side: frontier positions whose children fetch is in flight
  expansionSets, \* per side: per frontier position, the pairs its task returned
  sideDone,      \* per side: expandSide has returned
  outNodes,      \* the returned nodes
  outLinks,      \* the returned links
  answers,       \* history: every answered children fetch
  accepted,      \* history: every (side, level, parent, child) a level committed
  lastLinks,     \* history: the link keys the last commit passed to addLink
  faults,        \* how many fetches the provider will still answer with a non-success response
  revisions,     \* history: how many revisions the provider made during the request
  requests,      \* history: every provider request issued, with the number of times it was
  failures,      \* history: the fetches that answered with a non-success response
  status,        \* the HTTP status GET /graph answered with (0: no answer yet)
  steps,         \* history: how many callbacks of the request and provider events have run
  ownMaps,       \* per side: the node and link maps the side would fill if it had its own
  rawDepth,      \* req.query.depth
  rawLimit,      \* req.query.limit
  parsed,        \* parseGraphParams as applied by the GET /graph handler
  reparsed,      \* parseGraphParams as applied again inside buildGraph
  pstage,        \* "off", "raw", "handler", "build"
  mergeMap,      \* a node map that receives addNode calls only
  calls,         \* history: the addNode calls made on mergeMap, in order
  parked,        \* the state of a second buildGraph call whose callbacks are not running
  batchInput,    \* getWorksByIds: the ids argument
  batchHas,      \* getWorksByIds: the ids the provider has a record of
  batchPhase,    \* getWorksByIds: "idle", "waiting" (inside Promise.all) or "returned"
  batchChunks,   \* getWorksByIds: chunks
  batchRequests, \* history: the requests issued, in order
  batchResponses,\* getWorksByIds: per chunk, the callback's result once it has resolved
  batchResult    \* getWorksByIds: the returned list

graphVars == <<db, updates, seedInput, depth, limit, phase, result, center, nodeMap,
               linkMap, workCache, level, frontier, parents, pending, expansionSets,
               sideDone, outNodes, outLinks, answers, accepted, lastLinks,
               faults, revisions, requests, failures, status, steps, ownMaps>>

paramVars == <<rawDepth, rawLimit, parsed, reparsed, pstage>>

mergeVars == <<mergeMap, calls>>

\* the variables buildGraph does not touch
batchVars == <<batchInput, batchHas, batchPhase, batchChunks, batchRequests,
               batchResponses, batchResult>>

idleVars == <<paramVars, mergeVars, parked, batchVars>>

vars == <<graphVars, paramVars, mergeVars, parked, batchVars>>

EmptyCache == [i \in {} |-> NullWork]

\* A provider request: the seed lookup (side "none", level 0), a parent lookup
\* of getWorkOrFetch, a batch fetch of references or a citers fetch.
Fetch(kind, side, lvl, id) == [kind |-> kind, side |-> side, level |-> lvl, id |-> id]

NoRequests == [f \in {} |-> 0]

\* the request log with the requests of S issued once more
Issue(log, S) ==
  [f \in DOMAIN log \cup S |->
     (IF f \in DOMAIN log THEN log[f] ELSE 0) + (IF f \in S THEN 1 ELSE 0)]

\* the handler answering every error alike
StatusOf_OneErrorStatus(cause) == IF cause = "graph" THEN 200 ELSE 502

\* the status the GET /graph handler answers with for an error cause
StatusOf(cause) ==
  IF cause = "BAD_WORK_ID" THEN 400
  ELSE IF cause = "NOT_FOUND" THEN 404
  ELSE IF cause = "graph" THEN 200
  ELSE 502

\* the start of a level of expandSide: every frontier task reads its parent
\* (getWorkOrFetch) and issues its children fetch; a references task whose
\* parent lists no references returns [] without a fetch.
LevelParents(wc, d, front) == [k \in DOMAIN front |-> getWorkOrFetch(wc, d, front[k])]

LevelPending(par, side) ==
  {k \in DOMAIN par : par[k].id # 0 /\ (side = "cited_by" \/ par[k].referenced_works # <<>>)}

\* the children fetch of a frontier task
ChildrenFetch(side, lvl, parentId) ==
  Fetch(IF side = "references" THEN "batch" ELSE "citers", side, lvl, parentId)

\* the provider requests the start of a level issues: a lookup for every
\* frontier id the cache does not hold, the children fetch of every task
LevelRequests(wc, front, par, side, lvl) ==
  {Fetch("lookup", side, lvl, front[k]) : k \in {j \in DOMAIN front : getCachedWork(wc, front[j]).id = 0}}
  \cup {ChildrenFetch(side, lvl, par[k].id) : k \in LevelPending(par, side)}

\* the seed lookup
SeedLookup == Fetch("lookup", "none", 0, toOpenAlexId(seedInput))

\* expandSide(s) is running: the request runs, or it failed upstream on the
\* other side, whose rejection does not stop this side's promise
SideRuns(s) ==
  /\ phase = "running" \/ (phase = "failed" /\ result = "UPSTREAM" /\ center.id # 0)
  /\ ~sideDone[s]
  /\ \A f \in failures : f.side # s

NoMaps == [nodeMap |-> <<>>, linkMap |-> <<>>]

NoParams == [depth |-> 0, limit |-> 0]

\* no depth / limit parsing is being followed
ParamsOff ==
  /\ rawDepth = Undefined
  /\ rawLimit = Undefined
  /\ parsed = NoParams
  /\ reparsed = NoParams
  /\ pstage = "off"

\* the state of a buildGraph call that has not started: its arguments, its
\* closure variables and what is recorded of it
NewRequest(seed, dep, lim) ==
  [seedInput |-> seed, depth |-> dep, limit |-> lim, phase |-> "idle", result |-> "none",
   center |-> NullWork, nodeMap |-> <<>>, linkMap |-> <<>>, workCache |-> EmptyCache,
   level |-> [s \in Sides |-> 0], frontier |-> [s \in Sides |-> <<>>],
   parents |-> [s \in Sides |-> <<>>], pending |-> [s \in Sides |-> {}],
   expansionSets |-> [s \in Sides |-> <<>>], sideDone |-> [s \in Sides |-> FALSE],
   outNodes |-> <<>>, outLinks |-> <<>>, answers |-> {}, accepted |-> {}, lastLinks |-> {},
   requests |-> NoRequests, failures |-> {}, status |-> 0, steps |-> 0,
   ownMaps |-> [s \in Sides |-> NoMaps]]

\* no second call
NoSecondRequest == NewRequest(0, DEPTH_DEFAULT, LIMIT_DEFAULT)

\* no call of getWorksByIds is being followed
BatchOff ==
  /\ batchInput = <<>>
  /\ batchHas = {}
  /\ batchPhase = "idle"
  /\ batchChunks = <<>>
  /\ batchRequests = <<>>
  /\ batchResponses = <<>>
  /\ batchResult = <<>>

\* no sequence of addNode calls is being followed, no second call is made,
\* no batch lookup is being followed
MergeOff == mergeMap = <<>> /\ calls = <<>> /\ parked = NoSecondRequest /\ BatchOff

\* buildGraph is called: a scenario of the set scs, any seed, any depth
InitOver(scs) ==
  /\ ParamsOff
  /\ MergeOff
  /\ \E sc \in scs :
       /\ db = sc.db
       /\ updates = sc.updates
       /\ faults = sc.faults
       /\ limit = Max(LIMIT_MIN, Min(LIMIT_MAX, sc.limit))
  /\ seedInput \in Works \cup {0}
  /\ depth \in DEPTH_MIN..DEPTH_MAX
  /\ phase = "idle"
  /\ result = "none"
  /\ center = NullWork
  /\ nodeMap = <<>>
  /\ linkMap = <<>>
  /\ workCache = EmptyCache
  /\ level = [s \in Sides |-> 0]
  /\ frontier = [s \in Sides |-> <<>>]
  /\ parents = [s \in Sides |-> <<>>]
  /\ pending = [s \in Sides |-> {}]
  /\ expansionSets = [s \in Sides |-> <<>>]
  /\ sideDone = [s \in Sides |-> FALSE]
  /\ outNodes = <<>>
  /\ outLinks = <<>>
  /\ answers = {}
  /\ accepted = {}
  /\ lastLinks = {}
  /\ revisions = 0
  /\ requests = NoRequests
  /\ failures = {}
  /\ status = 0
  /\ steps = 0
  /\ ownMaps = [s \in Sides |-> NoMaps]

Init == InitOver(Scenarios)

\* buildGraph: the seed does not normalize.
RejectBadId ==
  /\ phase = "idle"
  /\ toOpenAlexId(seedInput) = Null
  /\ phase' = "failed"
  /\ result' = "BAD_WORK_ID"
  /\ status' = StatusOf("BAD_WORK_ID")
  /\ UNCHANGED <<faults, revisions, requests, failures>>
  /\ steps' = steps + 1
  /\ UNCHANGED ownMaps
  /\ UNCHANGED idleVars
  /\ UNCHANGED <<db, updates, seedInput, depth, limit, center, nodeMap, linkMap,
                 workCache, level, frontier, parents, pending, expansionSets,
                 sideDone, outNodes, outLinks, answers, accepted, lastLinks>>

\* buildGraph: the seed lookup answers with no record.
SeedNotFound ==
  /\ phase = "idle"
  /\ toOpenAlexId(seedInput) # Null
  /\ getWorkById(db, toOpenAlexId(seedInput)).id = 0
  /\ phase' = "failed"
  /\ result' = "NOT_FOUND"
  /\ status' = StatusOf("NOT_FOUND")
  /\ requests' = Issue(requests, {SeedLookup})
  /\ UNCHANGED <<faults, revisions, failures>>
  /\ steps' = steps + 1
  /\ UNCHANGED ownMaps
  /\ UNCHANGED idleVars
  /\ UNCHANGED <<db, updates, seedInput, depth, limit, center, nodeMap, linkMap,
                 workCache, level, frontier, parents, pending, expansionSets,
                 sideDone, outNodes, outLinks, answers, accepted, lastLinks>>

\* buildGraph: the seed lookup answers; addNode(center, "center", 0) and both
\* sides start their level 1.
SeedFound ==
  /\ phase = "idle"
  /\ toOpenAlexId(seedInput) # Null
  /\ LET c == getWorkById(db, toOpenAlexId(seedInput))
         wc == cacheWork(EmptyCache, c)
         par == LevelParents(wc, db, <<c.id>>)
     IN /\ c.id # 0
        /\ center' = c
        /\ nodeMap' = addNode(<<>>, c, "center", 0)
        /\ workCache' = wc
        /\ level' = [s \in Sides |-> 1]
        /\ frontier' = [s \in Sides |-> <<c.id>>]
        /\ parents' = [s \in Sides |-> par]
        /\ pending' = [s \in Sides |-> LevelPending(par, s)]
        /\ expansionSets' = [s \in Sides |-> [k \in DOMAIN par |-> <<>>]]
        /\ ownMaps' = [s \in Sides |->
                          [nodeMap |-> addNode(<<>>, c, "center", 0), linkMap |-> <<>>]]
        /\ requests' = Issue(Issue(Issue(requests, {SeedLookup}),
                                    LevelRequests(wc, <<c.id>>, par, "references", 1)),
                              LevelRequests(wc, <<c.id>>, par, "cited_by", 1))
  /\ phase' = "running"
  /\ UNCHANGED <<faults, revisions, failures, status>>
  /\ steps' = steps + 1
  /\ UNCHANGED idleVars
  /\ UNCHANGED <<db, updates, seedInput, depth, limit, result, linkMap, sideDone,
                 outNodes, outLinks, answers, accepted, lastLinks>>

\* The children fetch of frontier position k of side s answers: the task
\* ranks, truncates and filters the children against its parent.
Respond(s, k) ==
  /\ phase = "running" \/ (phase = "failed" /\ result = "UPSTREAM")
  /\ ~sideDone[s]
  /\ k \in pending[s]
  /\ LET ppl == perParentLimitOf(limit, Len(frontier[s]))
         par == parents[s][k]
         fetched == IF s = "references" THEN getTopReferences(db, par, ppl)
                    ELSE getTopCitations(db, par.id, ppl)
         pairs == ExpandParent(db, par, s, ppl)
     IN /\ expansionSets' = [expansionSets EXCEPT ![s][k] = pairs]
        /\ answers' = answers \cup
             {[side |-> s, level |-> level[s], parent |-> par, fetched |-> fetched,
               kept |-> {pairs[i].child.id : i \in DOMAIN pairs}]}
  /\ pending' = [pending EXCEPT ![s] = @ \ {k}]
  /\ UNCHANGED <<faults, revisions, requests, failures, status>>
  /\ steps' = steps + 1
  /\ UNCHANGED ownMaps
  /\ UNCHANGED idleVars
  /\ UNCHANGED <<db, updates, seedInput, depth, limit, phase, result, center,
                 nodeMap, linkMap, workCache, level, frontier, parents, sideDone,
                 outNodes, outLinks, accepted, lastLinks>>

\* Promise.all of a level of side s resolves: dedup, re-rank, truncate, commit,
\* then the next level starts or expandSide returns.
Join(s) ==
  /\ SideRuns(s)
  /\ pending[s] = {}
  /\ LET limited == LimitedOf(expansionSets[s], limit)
         g == CommitAll(limited, s, level[s],
                        [nodeMap |-> nodeMap, linkMap |-> linkMap, workCache |-> workCache])
         next == DedupIds(limited, <<>>)
         more == LoopContinues(level[s] + 1, depth, next)
         par == LevelParents(g.workCache, db, next)
     IN /\ nodeMap' = g.nodeMap
        /\ linkMap' = g.linkMap
        /\ workCache' = g.workCache
        /\ accepted' = accepted \cup
             {<<s, level[s], limited[i].parent.id, limited[i].child.id>> : i \in DOMAIN limited}
        /\ lastLinks' = {<<limited[i].parent.id, limited[i].child.id, s>> : i \in DOMAIN limited}
        /\ level' = [level EXCEPT ![s] = @ + 1]
        /\ frontier' = [frontier EXCEPT ![s] = next]
        /\ sideDone' = [sideDone EXCEPT ![s] = ~more]
        /\ parents' = [parents EXCEPT ![s] = IF more THEN par ELSE <<>>]
        /\ pending' = [pending EXCEPT ![s] = IF more THEN LevelPending(par, s) ELSE {}]
        /\ expansionSets' = [expansionSets EXCEPT ![s] =
                               IF more THEN [k \in DOMAIN par |-> <<>>] ELSE <<>>]
        /\ ownMaps' = [ownMaps EXCEPT ![s] =
                          LET own == CommitAll(limited, s, level[s],
                                               [nodeMap |-> ownMaps[s].nodeMap,
                                                linkMap |-> ownMaps[s].linkMap,
                                                workCache |-> workCache])
                          IN [nodeMap |-> own.nodeMap, linkMap |-> own.linkMap]]
        /\ requests' = IF more
                        THEN Issue(requests, LevelRequests(g.workCache, next, par, s, level[s] + 1))
                        ELSE requests
  /\ UNCHANGED <<faults, revisions, failures, status>>
  /\ steps' = steps + 1
  /\ UNCHANGED idleVars
  /\ UNCHANGED <<db, updates, seedInput, depth, limit, phase, result, center,
                 outNodes, outLinks, answers>>

\* Both sides have returned: the final assembly and the return.
Assemble ==
  /\ phase = "running"
  /\ \A s \in Sides : sideDone[s]
  /\ LET links == FinalLinks(nodeMap, linkMap)
     IN /\ outLinks' = links
        /\ outNodes' = ConnectedNodes(nodeMap, ConnectedNodeIds(center.id, links))
  /\ phase' = "returned"
  /\ result' = "graph"
  /\ status' = StatusOf("graph")
  /\ UNCHANGED <<faults, revisions, requests, failures>>
  /\ steps' = steps + 1
  /\ UNCHANGED ownMaps
  /\ UNCHANGED idleVars
  /\ UNCHANGED <<db, updates, seedInput, depth, limit, center, nodeMap, linkMap,
                 workCache, level, frontier, parents, pending, expansionSets,
                 sideDone, answers, accepted, lastLinks>>

\* The provider revises the publication year of a record while a fetch of the
\* request is in flight (a revision at any other moment is seen by the same
\* fetches as one made when the next fetch is in flight).
ProviderRevise(w, y) ==
  /\ phase = "running"
  /\ updates > 0
  /\ \E s \in Sides : pending[s] # {}
  /\ db[w].present
  /\ db[w].publication_year # y
  /\ db' = [db EXCEPT ![w].publication_year = y]
  /\ updates' = updates - 1
  /\ revisions' = revisions + 1
  /\ UNCHANGED <<faults, requests, failures, status>>
  /\ steps' = steps + 1
  /\ UNCHANGED ownMaps
  /\ UNCHANGED idleVars
  /\ UNCHANGED <<seedInput, depth, limit, phase, result, center, nodeMap, linkMap,
                 workCache, level, frontier, parents, pending, expansionSets,
                 sideDone, outNodes, outLinks, answers, accepted, lastLinks>>

\* the seed lookup answers with a non-success response: requestOpenAlex
\* throws, buildGraph rejects with an error that carries no cause
SeedLookupFails ==
  /\ phase = "idle"
  /\ toOpenAlexId(seedInput) # Null
  /\ faults > 0
  /\ faults' = faults - 1
  /\ failures' = failures \cup {SeedLookup}
  /\ requests' = Issue(requests, {SeedLookup})
  /\ phase' = "failed"
  /\ result' = "UPSTREAM"
  /\ status' = StatusOf("UPSTREAM")
  /\ steps' = steps + 1
  /\ UNCHANGED ownMaps
  /\ UNCHANGED idleVars
  /\ UNCHANGED <<db, updates, seedInput, depth, limit, center, nodeMap, linkMap,
                 workCache, level, frontier, parents, pending, expansionSets,
                 sideDone, outNodes, outLinks, answers, accepted, lastLinks, revisions>>

\* the children fetch of frontier position k of side s, answered as an empty
\* list when the response is a non-success one
FetchFails_AsEmpty(s, k) ==
  /\ phase = "running"
  /\ ~sideDone[s]
  /\ k \in pending[s]
  /\ faults > 0
  /\ faults' = faults - 1
  /\ failures' = failures \cup {ChildrenFetch(s, level[s], parents[s][k].id)}
  /\ pending' = [pending EXCEPT ![s] = @ \ {k}]
  /\ steps' = steps + 1
  /\ UNCHANGED ownMaps
  /\ UNCHANGED idleVars
  /\ UNCHANGED <<db, updates, seedInput, depth, limit, phase, result, status, center,
                 nodeMap, linkMap, workCache, level, frontier, parents, expansionSets,
                 sideDone, outNodes, outLinks, answers, accepted, lastLinks,
                 revisions, requests>>

\* The children fetch of frontier position k of side s answers with a
\* non-success response: requestOpenAlex throws, the task rejects, and so do
\* the level's Promise.all, expandSide(s) and buildGraph; the handler answers
\* 502.  The other side's promise is not cancelled.
FetchFails(s, k) ==
  /\ SideRuns(s)
  /\ k \in pending[s]
  /\ faults > 0
  /\ faults' = faults - 1
  /\ failures' = failures \cup {ChildrenFetch(s, level[s], parents[s][k].id)}
  /\ pending' = [pending EXCEPT ![s] = @ \ {k}]
  /\ phase' = "failed"
  /\ result' = "UPSTREAM"
  /\ status' = StatusOf("UPSTREAM")
  /\ steps' = steps + 1
  /\ UNCHANGED ownMaps
  /\ UNCHANGED idleVars
  /\ UNCHANGED <<db, updates, seedInput, depth, limit, center, nodeMap, linkMap,
                 workCache, level, frontier, parents, expansionSets, sideDone,
                 outNodes, outLinks, answers, accepted, lastLinks, revisions, requests>>

Next ==
  \/ RejectBadId
  \/ SeedNotFound
  \/ SeedFound
  \/ SeedLookupFails
  \/ \E s \in Sides : \E k \in 1..MaxLimit : FetchFails(s, k)
  \/ \E s \in Sides : \E k \in 1..MaxLimit : Respond(s, k)
  \/ \E s \in Sides : Join(s)
  \/ Assemble
  \/ \E w \in Works : \E y \in {Null} \cup (1..MaxYear) : ProviderRevise(w, y)

Spec == Init /\ [][Next]_vars

\* The scenarios whose works all have the year 1: the two works with every
\* citation structure (a two-cycle among them), the three works citing each
\* other (cycles of length two and three).
LiveScenarios ==
  {sc \in Scenarios :
     /\ sc.db \in TwoWorks \cup YearProfiles
     /\ \A w \in Works : sc.db[w].present => sc.db[w].publication_year = 1}

\* A callback of the request is ready to run or a fetch of it is in flight:
\* buildGraph has just been called, a children fetch is pending, a level's
\* Promise.all has all its results, or both sides have returned.
CanStep ==
  \/ phase = "idle"
  \/ \E s \in Sides :
       /\ phase = "running" \/ (phase = "failed" /\ result = "UPSTREAM")
       /\ ~sideDone[s]
       /\ pending[s] # {}
  \/ \E s \in Sides : SideRuns(s) /\ pending[s] = {}
  \/ phase = "running" /\ \A s \in Sides : sideDone[s]

\* the next callback runs or the next pending fetch is answered
Advance == CanStep /\ steps' = steps + 1

\* The request under a scheduler that runs every ready callback and a
\* provider that answers every fetch: while something can run, something
\* eventually does.
SpecLive == InitOver(LiveScenarios) /\ [][Next]_vars /\ WF_steps(Advance)

\* ---------------------------------------- the machine of depth and limit
\* no graph request is being followed
GraphOff ==
  /\ db = [w \in Works |-> NoRow]
  /\ updates = 0
  /\ faults = 0
  /\ revisions = 0
  /\ requests = NoRequests
  /\ failures = {}
  /\ status = 0
  /\ steps = 0
  /\ ownMaps = [s \in Sides |-> NoMaps]
  /\ seedInput = 0
  /\ depth = DEPTH_DEFAULT
  /\ limit = LIMIT_DEFAULT
  /\ phase = "off"
  /\ result = "none"
  /\ center = NullWork
  /\ nodeMap = <<>>
  /\ linkMap = <<>>
  /\ workCache = EmptyCache
  /\ level = [s \in Sides |-> 0]
  /\ frontier = [s \in Sides |-> <<>>]
  /\ parents = [s \in Sides |-> <<>>]
  /\ pending = [s \in Sides |-> {}]
  /\ expansionSets = [s \in Sides |-> <<>>]
  /\ sideDone = [s \in Sides |-> FALSE]
  /\ outNodes = <<>>
  /\ outLinks = <<>>
  /\ answers = {}
  /\ accepted = {}
  /\ lastLinks = {}

InitParams ==
  /\ GraphOff
  /\ MergeOff
  /\ rawDepth \in ParamInputs
  /\ rawLimit \in ParamInputs
  /\ parsed = NoParams
  /\ reparsed = NoParams
  /\ pstage = "raw"

\* the GET /graph handler parses req.query.depth and req.query.limit
HandlerParse ==
  /\ pstage = "raw"
  /\ parsed' = parseGraphParams(rawDepth, rawLimit)
  /\ pstage' = "handler"
  /\ UNCHANGED <<rawDepth, rawLimit, reparsed>>
  /\ UNCHANGED <<graphVars, mergeVars, parked, batchVars>>

\* buildGraph parses the two numbers the handler passed
BuildParse ==
  /\ pstage = "handler"
  /\ reparsed' = parseGraphParams(NumberValue(parsed.depth), NumberValue(parsed.limit))
  /\ pstage' = "build"
  /\ UNCHANGED <<rawDepth, rawLimit, parsed>>
  /\ UNCHANGED <<graphVars, mergeVars, parked, batchVars>>

NextParams ==
  \/ HandlerParse
  \/ BuildParse

SpecParams == InitParams /\ [][NextParams]_vars


\* ------------------------------------------- the machine of getWorksByIds
\* An id argument as written: form says how the id n is spelt. "url" is
\* https://openalex.org/W<n>, "bare" is W<n>, "lower" is w<n>; "short" has
\* fewer than four digits after the W and "none" is no string or has no W.
IdForms == {"url", "bare", "lower"}

RawId(form, n) == [form |-> form, n |-> n]

\* normalizeId: the canonical id of a spelling the pattern matches, else null
normalizeId(raw) == IF raw.form \in IdForms THEN raw.n ELSE Null

\* [...new Set(list)]: the first occurrence of every value, in order
Unique(list) ==
  LET indexed == [i \in DOMAIN list |-> <<i, list[i]>>]
      first == SelectSeq(indexed, LAMBDA p : \A j \in 1..(p[1] - 1) : list[j] # p[2])
  IN [k \in DOMAIN first |-> first[k][2]]

\* ids.map(normalizeId).filter(Boolean), made unique
normalizedIdsOf(ids) ==
  Unique(SelectSeq([i \in DOMAIN ids |-> normalizeId(ids[i])], LAMBDA v : v # Null))

\* chunkArray leaving out a last chunk shorter than size
chunkArray_DropsPartial(items, size) ==
  [k \in 1..(Len(items) \div size) |-> SubSeq(items, (k - 1) * size + 1, k * size)]

\* chunkArray: slices of size items from index 0 on, the last one shorter
chunkArray(items, size) ==
  [k \in 1..((Len(items) + size - 1) \div size) |->
     SubSeq(items, (k - 1) * size + 1, Min(k * size, Len(items)))]

\* the chunk size getWorksByIds passes to chunkArray
CHUNK_SIZE == 40

\* the most chunks an argument of the model is split into
MaxChunks == (MaxIds + CHUNK_SIZE - 1) \div CHUNK_SIZE

\* the record the provider holds for the id n
BatchRow(n) == [present |-> TRUE, publication_year |-> 1, cited_by_count |-> 0,
                referenced_works |-> <<>>]

\* the results of one chunk request: the rows of the chunk's ids the provider
\* has, at most perPage of them, in the provider's order, each through normalizeWork
ChunkResults(chunk, perPage, has, descending) ==
  LET hits == SelectSeq(chunk, LAMBDA n : n \in has)
      rows == IF descending THEN [k \in DOMAIN hits |-> hits[Len(hits) + 1 - k]] ELSE hits
      page == Take(rows, perPage)
  IN [k \in DOMAIN page |-> normalizeWork(page[k], BatchRow(page[k]))]

\* the id lists getWorksByIds is called with: the ids 1..n in changing
\* spellings, after every junkEvery-th a value that does not normalize, after
\* every dupEvery-th the same id again in another spelling (0: never); a
\* list with junk begins with it
InputAt(i, part, junkEvery, dupEvery) ==
  LET form == IF i % 3 = 0 THEN "url" ELSE IF i % 3 = 1 THEN "bare" ELSE "lower"
      again == IF form = "url" THEN "lower" ELSE "url"
  IN IF part = 0 THEN
       IF junkEvery # 0 /\ (i = 1 \/ i % junkEvery = 0)
       THEN RawId(IF i % 2 = 0 THEN "short" ELSE "none", i) ELSE RawId("skip", 0)
     ELSE IF part = 1 THEN RawId(form, i)
     ELSE IF dupEvery # 0 /\ i % dupEvery = 0 THEN RawId(again, i) ELSE RawId("skip", 0)

BatchInputOf(n, junkEvery, dupEvery) ==
  SelectSeq([k \in 1..(3 * n) |-> InputAt((k + 2) \div 3, (k + 2) % 3, junkEvery, dupEvery)],
            LAMBDA raw : raw.form # "skip")

JunkEvery == {0, 1, 7}
DupEvery == {0, 1, 5}
HasEvery == {0, 1, 2}

InitBatch ==
  /\ GraphOff
  /\ ParamsOff
  /\ mergeMap = <<>>
  /\ calls = <<>>
  /\ parked = NoSecondRequest
  /\ \E n \in 0..MaxIds, j \in JunkEvery, q \in DupEvery :
       batchInput = BatchInputOf(n, j, q)
  /\ \E h \in HasEvery : batchHas = {n \in 1..MaxIds : h # 0 /\ n % h = 0}
  /\ batchPhase = "idle"
  /\ batchChunks = <<>>
  /\ batchRequests = <<>>
  /\ batchResponses = <<>>
  /\ batchResult = <<>>

\* getWorksByIds with no id left after normalizing: [] and no request
BatchReturnsEmpty ==
  /\ batchPhase = "idle"
  /\ normalizedIdsOf(batchInput) = <<>>
  /\ batchPhase' = "returned"
  /\ batchResult' = <<>>
  /\ UNCHANGED <<batchInput, batchHas, batchChunks, batchRequests, batchResponses>>
  /\ UNCHANGED <<graphVars, paramVars, mergeVars, parked>>

\* getWorksByIds up to the await: the chunks are made and chunks.map starts
\* every callback, each running to its requestOpenAlex call
BatchStart ==
  /\ batchPhase = "idle"
  /\ normalizedIdsOf(batchInput) # <<>>
  /\ LET chunks == chunkArray(normalizedIdsOf(batchInput), CHUNK_SIZE)
     IN /\ batchChunks' = chunks
        /\ batchRequests' = [k \in DOMAIN chunks |->
                               [filter |-> chunks[k], perPage |-> Len(chunks[k])]]
        /\ batchResponses' = [k \in DOMAIN chunks |-> [resolved |-> FALSE, works |-> <<>>]]
  /\ batchPhase' = "waiting"
  /\ UNCHANGED <<batchInput, batchHas, batchResult>>
  /\ UNCHANGED <<graphVars, paramVars, mergeVars, parked>>

\* the response to the k-th request arrives and its callback resolves
ChunkResponds(k, descending) ==
  /\ batchPhase = "waiting"
  /\ k \in DOMAIN batchResponses
  /\ ~batchResponses[k].resolved
  /\ batchResponses' =
       [batchResponses EXCEPT ![k] =
          [resolved |-> TRUE,
           works |-> ChunkResults(batchRequests[k].filter, batchRequests[k].perPage,
                                  batchHas, descending)]]
  /\ UNCHANGED <<batchInput, batchHas, batchPhase, batchChunks, batchRequests, batchResult>>
  /\ UNCHANGED <<graphVars, paramVars, mergeVars, parked>>

\* Promise.all resolves: responses.flat() is returned
BatchReturn ==
  /\ batchPhase = "waiting"
  /\ \A k \in DOMAIN batchResponses : batchResponses[k].resolved
  /\ batchResult' = Flat([k \in DOMAIN batchResponses |-> batchResponses[k].works])
  /\ batchPhase' = "returned"
  /\ UNCHANGED <<batchInput, batchHas, batchChunks, batchRequests, batchResponses>>
  /\ UNCHANGED <<graphVars, paramVars, mergeVars, parked>>

NextBatch ==
  \/ BatchReturnsEmpty
  \/ BatchStart
  \/ \E k \in 1..MaxChunks : \E descending \in BOOLEAN : ChunkResponds(k, descending)
  \/ BatchReturn

SpecBatch == InitBatch /\ [][NextBatch]_vars


\* --------------------------------------------- two calls of buildGraph
\* the state of the buildGraph call whose callbacks are running
RunningRequest ==
  [seedInput |-> seedInput, depth |-> depth, limit |-> limit, phase |-> phase,
   result |-> result, center |-> center, nodeMap |-> nodeMap, linkMap |-> linkMap,
   workCache |-> workCache, level |-> level, frontier |-> frontier, parents |-> parents,
   pending |-> pending, expansionSets |-> expansionSets, sideDone |-> sideDone,
   outNodes |-> outNodes, outLinks |-> outLinks, answers |-> answers,
   accepted |-> accepted, lastLinks |-> lastLinks, requests |-> requests,
   failures |-> failures, status |-> status, steps |-> steps, ownMaps |-> ownMaps]

\* the event loop with a node map that belongs to the module, not to the call
Switch_SharedNodeMap ==
  /\ parked' = RunningRequest
  /\ seedInput' = parked.seedInput
  /\ depth' = parked.depth
  /\ limit' = parked.limit
  /\ phase' = parked.phase
  /\ result' = parked.result
  /\ center' = parked.center
  /\ linkMap' = parked.linkMap
  /\ workCache' = parked.workCache
  /\ level' = parked.level
  /\ frontier' = parked.frontier
  /\ parents' = parked.parents
  /\ pending' = parked.pending
  /\ expansionSets' = parked.expansionSets
  /\ sideDone' = parked.sideDone
  /\ outNodes' = parked.outNodes
  /\ outLinks' = parked.outLinks
  /\ answers' = parked.answers
  /\ accepted' = parked.accepted
  /\ lastLinks' = parked.lastLinks
  /\ requests' = parked.requests
  /\ failures' = parked.failures
  /\ status' = parked.status
  /\ steps' = parked.steps
  /\ ownMaps' = parked.ownMaps
  /\ UNCHANGED <<nodeMap, db, updates, faults, revisions, paramVars, mergeVars, batchVars>>

\* The event loop turns from the callbacks of one buildGraph call to those of
\* the other: each call has its own arguments and its own closure (center,
\* nodeMap, linkMap, workCache, the loop variables of its sides); the provider
\* is the same.
Switch ==
  /\ parked' = RunningRequest
  /\ seedInput' = parked.seedInput
  /\ depth' = parked.depth
  /\ limit' = parked.limit
  /\ phase' = parked.phase
  /\ result' = parked.result
  /\ center' = parked.center
  /\ nodeMap' = parked.nodeMap
  /\ linkMap' = parked.linkMap
  /\ workCache' = parked.workCache
  /\ level' = parked.level
  /\ frontier' = parked.frontier
  /\ parents' = parked.parents
  /\ pending' = parked.pending
  /\ expansionSets' = parked.expansionSets
  /\ sideDone' = parked.sideDone
  /\ outNodes' = parked.outNodes
  /\ outLinks' = parked.outLinks
  /\ answers' = parked.answers
  /\ accepted' = parked.accepted
  /\ lastLinks' = parked.lastLinks
  /\ requests' = parked.requests
  /\ failures' = parked.failures
  /\ status' = parked.status
  /\ steps' = parked.steps
  /\ ownMaps' = parked.ownMaps
  /\ UNCHANGED <<db, updates, faults, revisions, paramVars, mergeVars, batchVars>>

\* the provider data two concurrent calls run against: the two works with
\* every citation structure, the three works citing each other; all of year 1
DataOfTwo ==
  {d \in TwoWorks \cup YearProfiles :
     \A w \in Works : d[w].present => d[w].publication_year = 1}

\* the depths of two concurrent calls
DepthsOfTwo == DEPTH_MIN..DEPTH_DEFAULT

\* Two calls of buildGraph against the same, unchanging provider data.
InitTwo ==
  /\ ParamsOff
  /\ mergeMap = <<>>
  /\ calls = <<>>
  /\ BatchOff
  /\ db \in DataOfTwo
  /\ updates = 0
  /\ faults = 0
  /\ revisions = 0
  /\ seedInput \in Works \cup {0}
  /\ depth \in DepthsOfTwo
  /\ limit = LIMIT_MIN
  /\ phase = "idle"
  /\ result = "none"
  /\ center = NullWork
  /\ nodeMap = <<>>
  /\ linkMap = <<>>
  /\ workCache = EmptyCache
  /\ level = [s \in Sides |-> 0]
  /\ frontier = [s \in Sides |-> <<>>]
  /\ parents = [s \in Sides |-> <<>>]
  /\ pending = [s \in Sides |-> {}]
  /\ expansionSets = [s \in Sides |-> <<>>]
  /\ sideDone = [s \in Sides |-> FALSE]
  /\ outNodes = <<>>
  /\ outLinks = <<>>
  /\ answers = {}
  /\ accepted = {}
  /\ lastLinks = {}
  /\ requests = NoRequests
  /\ failures = {}
  /\ status = 0
  /\ steps = 0
  /\ ownMaps = [s \in Sides |-> NoMaps]
  /\ \E seed \in Works \cup {0}, dep \in DepthsOfTwo : parked = NewRequest(seed, dep, LIMIT_MIN)

NextTwo ==
  \/ RejectBadId
  \/ SeedNotFound
  \/ SeedFound
  \/ \E s \in Sides : \E k \in 1..MaxLimit : Respond(s, k)
  \/ \E s \in Sides : Join(s)
  \/ Assemble
  \/ Switch

SpecTwo == InitTwo /\ [][NextTwo]_vars


\* ------------------------------------------------- the machine of addNode
\* the ids, sides and depths addNode is called with
MergeIds == {1, 2}

MergeSides == {"center", "backward", "forward"}

MergeDepths == 0..DEPTH_MAX

\* the record of work id that a call passes
MergeWork(id) ==
  [id |-> id, year |-> 1, cited_by_count |-> CitedByCount[id], referenced_works |-> <<>>]

InitMerge ==
  /\ GraphOff
  /\ ParamsOff
  /\ MergeOff

\* addNode(work, side, nodeDepth) is called on the node map
AddNodeCall(id, side, nodeDepth) ==
  /\ Len(calls) < MaxCalls
  /\ mergeMap' = addNode(mergeMap, MergeWork(id), side, nodeDepth)
  /\ calls' = Append(calls, [id |-> id, side |-> side, depth |-> nodeDepth])
  /\ UNCHANGED <<graphVars, paramVars, parked, batchVars>>

NextMerge ==
  \E id \in MergeIds : \E side \in MergeSides : \E nodeDepth \in MergeDepths :
    AddNodeCall(id, side, nodeDepth)

SpecMerge == InitMerge /\ [][NextMerge]_vars


\* ------------------------------------------------------------------ claims
Returned == phase = "returned"

NodeIds(nodes) == {nodes[i].id : i \in DOMAIN nodes}

\* the level of side s numbered lvl has been committed
Committed(s, lvl) == lvl >= 1 /\ lvl < level[s]

\* the final assembly dropped a link
LinkDropped == Returned /\ Len(outLinks) < Len(linkMap)

\* C1: the returned graph has exactly one node of side center; it is the seed
\* work and its depth is 0, also when a citation cycle returned the center as
\* a child of another work.
C1_OneCenter ==
  Returned =>
    LET cs == {i \in DOMAIN outNodes : outNodes[i].side = "center"}
    IN /\ Cardinality(cs) = 1
       /\ \A i \in cs : outNodes[i].id = toOpenAlexId(seedInput) /\ outNodes[i].depth = 0
       /\ \A i \in DOMAIN outNodes :
            outNodes[i].id = toOpenAlexId(seedInput) => outNodes[i].side = "center"

\* a graph was returned after a level committed the center as a child
C1_Witness ==
  Returned /\ \E a \in accepted : a[4] = center.id

RECURSIVE ReachFrom(_, _)
\* the ids reachable from the set S along links, from source to target
ReachFrom(S, links) ==
  LET nxt == S \cup {links[i].target : i \in {j \in DOMAIN links : links[j].source \in S}}
  IN IF nxt = S THEN S ELSE ReachFrom(nxt, links)

\* C2: every node of the returned graph is reachable from the center along
\* the returned links, followed from source to target.
C2_AllReachable ==
  Returned => NodeIds(outNodes) \subseteq ReachFrom({center.id}, outLinks)

Known(year) == year # Null

NodeOf(nodes, id) == nodes[CHOOSE i \in DOMAIN nodes : nodes[i].id = id]

\* C3: against the returned node records, a references link has
\* target.year <= source.year and a cited_by link has target.year >= source.year;
\* a link with an unknown year at an end satisfies either.
C3_LinksTemporal ==
  Returned =>
    \A i \in DOMAIN outLinks :
      LET src == NodeOf(outNodes, outLinks[i].source)
          tgt == NodeOf(outNodes, outLinks[i].target)
      IN (Known(src.year) /\ Known(tgt.year)) =>
           IF outLinks[i].type = "references" THEN tgt.year <= src.year
           ELSE tgt.year >= src.year

\* the final re-validation dropped a link and kept links of both types
C3_Witness ==
  /\ LinkDropped
  /\ \E i \in DOMAIN outLinks : outLinks[i].type = "references"
  /\ \E i \in DOMAIN outLinks : outLinks[i].type = "cited_by"

\* the levels at which a committed pair reached the work id
LevelsReaching(id) == {a[2] : a \in {b \in accepted : b[4] = id}}

MinOf(S) == CHOOSE x \in S : \A y \in S : x <= y

DepthIsMinLevel(nodes) ==
  \A i \in DOMAIN nodes :
    nodes[i].id # center.id =>
      /\ LevelsReaching(nodes[i].id) # {}
      /\ nodes[i].depth = MinOf(LevelsReaching(nodes[i].id))

DepthNeverIncreases ==
  \A i \in DOMAIN nodeMap :
    \E j \in DOMAIN nodeMap' :
      nodeMap'[j].id = nodeMap[i].id /\ nodeMap'[j].depth <= nodeMap[i].depth

\* C4: the depth of every node but the center is the least level at which a
\* committed pair of either side reached it, in the node map at every moment
\* and in the returned nodes; no step of the build increases a node's depth.
C4_DepthIsMin ==
  /\ [](DepthIsMinLevel(nodeMap) /\ (Returned => DepthIsMinLevel(outNodes)))
  /\ [][DepthNeverIncreases]_vars

\* a returned node other than the center was reached at two different levels
C4_Witness ==
  /\ Returned
  /\ \E i \in DOMAIN outNodes :
       /\ outNodes[i].id # center.id
       /\ Cardinality(LevelsReaching(outNodes[i].id)) >= 2

NoDuplicateIds(nodes) ==
  \A i, j \in DOMAIN nodes : nodes[i].id = nodes[j].id => i = j

NoDuplicateLinks(links) ==
  \A i, j \in DOMAIN links : LinkKey(links[i]) = LinkKey(links[j]) => i = j

LinkKeys(links) == {LinkKey(links[i]) : i \in DOMAIN links}

\* a step keeps every link where it is, appends one link per key that is new,
\* and changes nothing when every key it passes to addLink is present
AddLinkStep ==
  /\ Len(linkMap') >= Len(linkMap)
  /\ SubSeq(linkMap', 1, Len(linkMap)) = linkMap
  /\ Len(linkMap') - Len(linkMap) = Cardinality(lastLinks' \ LinkKeys(linkMap))
  /\ (lastLinks' \subseteq LinkKeys(linkMap) => linkMap' = linkMap)

\* C5: no two nodes share an id and no two links share (source, target, type),
\* in the maps at every moment and in the returned graph; adding a link that is
\* present leaves the link map unchanged.
C5_NoDuplicates ==
  /\ [](/\ NoDuplicateIds(nodeMap) /\ NoDuplicateLinks(linkMap)
        /\ NoDuplicateIds(outNodes) /\ NoDuplicateLinks(outLinks))
  /\ [][AddLinkStep]_vars

\* the same (side, parent, child) was committed at two levels, so addLink was
\* called with a key already present, and a node was merged
C5_Witness ==
  \E a, b \in accepted : a[1] = b[1] /\ a[3] = b[3] /\ a[4] = b[4] /\ a[2] # b[2]

\* C6: both ends of every returned link are ids of returned nodes.
C6_EndpointsPresent ==
  Returned =>
    \A i \in DOMAIN outLinks :
      outLinks[i].source \in NodeIds(outNodes) /\ outLinks[i].target \in NodeIds(outNodes)

\* a graph was returned in which a kept link leaves a node all of whose
\* incoming links were dropped
C6_Witness ==
  /\ LinkDropped
  /\ \E i \in DOMAIN outLinks :
       /\ outLinks[i].source # center.id
       /\ \A j \in DOMAIN outLinks : outLinks[j].target # outLinks[i].source


\* the children side s committed at level lvl
AcceptedChildren(s, lvl) == {a[4] : a \in {b \in accepted : b[1] = s /\ b[2] = lvl}}

\* the seed's references the provider has a record of
ResolvedReferences == {r \in Range(center.referenced_works) : r \in Works /\ db[r].present}

\* w ranks before v by (cited_by_count descending, id ascending)
RanksBefore(w, v) ==
  \/ db[w].cited_by_count > db[v].cited_by_count
  \/ db[w].cited_by_count = db[v].cited_by_count /\ w < v

\* the n first works of S in that ranking
TopRanked(S, n) == {w \in S : Cardinality({v \in S : RanksBefore(v, w)}) < n}

\* every record of the provider carries a publication year
AllYearsKnown == \A w \in Works : db[w].present => Known(db[w].publication_year)

\* C7 as stated: with at least `limit` resolved references, level 1 of the
\* references side adds exactly `limit` reference nodes, the `limit` first
\* resolved references ranked by (cited_by_count descending, id ascending).
\* (Stated over data sets whose years are all known, where the temporal filter
\* compares two publication years and nothing else.)
C7_ExactlyLimit ==
  (/\ Committed("references", 1)
   /\ Cardinality(ResolvedReferences) >= limit
   /\ AllYearsKnown) =>
    /\ AcceptedChildren("references", 1) = TopRanked(ResolvedReferences, limit)
    /\ Cardinality(AcceptedChildren("references", 1)) = limit

\* C7 (amended): with at least `limit` resolved references, level 1 of the
\* references side fetches the `limit` first resolved references in that
\* ranking and adds, as nodes, exactly those of them that pass the temporal
\* filter against the seed: at most `limit`, and `limit` when all pass.
C7_TopThatPass ==
  (Committed("references", 1) /\ Cardinality(ResolvedReferences) >= limit) =>
    \E a \in answers :
      /\ a.side = "references" /\ a.level = 1
      /\ {a.fetched[i].id : i \in DOMAIN a.fetched} = TopRanked(ResolvedReferences, limit)
      /\ Len(a.fetched) = limit
      /\ AcceptedChildren("references", 1) =
           {a.fetched[i].id : i \in {j \in DOMAIN a.fetched :
                                       ToNumber(a.fetched[j].year) <= ToNumber(center.year)}}
      /\ AcceptedChildren("references", 1) \subseteq NodeIds(nodeMap)
      /\ \A i \in DOMAIN nodeMap :
           nodeMap[i].id \in AcceptedChildren("references", 1) =>
             nodeMap[i].side \in {"backward", "both"} /\ nodeMap[i].depth = 1

\* the seed has more resolved references than `limit`: the truncation cut the
\* lower-ranked off and every one kept passed the filter
C7_Witness ==
  /\ Committed("references", 1)
  /\ Cardinality(ResolvedReferences) > limit
  /\ Cardinality(AcceptedChildren("references", 1)) = limit
  /\ AcceptedChildren("references", 1) \subseteq NodeIds(nodeMap)

\* the parents whose task produced child c at level lvl of side s
Producers(s, lvl, c) ==
  {a.parent.id : a \in {b \in answers : b.side = s /\ b.level = lvl /\ c \in b.kept}}

\* C8: at every committed level of each side, a child produced by one or more
\* frontier parents is committed with exactly one parent, the lowest parent id
\* among its producers, whatever the order of the answers.
C8_LowestParent ==
  \A s \in Sides : \A lvl \in DEPTH_MIN..DEPTH_MAX : \A c \in Works :
    (Committed(s, lvl) /\ Producers(s, lvl, c) # {}) =>
      {a \in accepted : a[1] = s /\ a[2] = lvl /\ a[4] = c}
        = {<<s, lvl, MinOf(Producers(s, lvl, c)), c>>}

\* a committed level at which two parents produced the same child, the parent
\* of the lower id being the later one in the frontier
C8_Witness ==
  \E s \in Sides : \E lvl \in DEPTH_MIN..DEPTH_MAX : \E c \in Works :
    /\ Committed(s, lvl)
    /\ Cardinality(Producers(s, lvl, c)) >= 2
    /\ lvl = level[s] - 1
    /\ sideDone[s]
    /\ \E a \in accepted : a[1] = s /\ a[2] = lvl - 1 /\ a[4] = MinOf(Producers(s, lvl, c))
         /\ \E b \in accepted : b[1] = s /\ b[2] = lvl - 1 /\ b[4] > a[4]
              /\ db[b[4]].cited_by_count > db[a[4]].cited_by_count


\* the value n clamped to the range lo..hi
ClampTo(n, lo, hi) == IF n < lo THEN lo ELSE IF n > hi THEN hi ELSE n

RECURSIVE Zeros(_)
Zeros(k) == IF k = 0 THEN <<>> ELSE <<"0">> \o Zeros(k - 1)

\* the strings that write the integer n in decimal: an optional minus sign
\* (required when n is negative), leading zeros, the digits
LiteralsOf(n) ==
  {sign \o Zeros(k) \o NatString(IF n < 0 THEN -n ELSE n) :
     sign \in (IF n < 0 THEN {<<"-">>} ELSE IF n = 0 THEN {<<>>, <<"-">>} ELSE {<<>>}),
     k \in 0..MaxStrLen}

RECURSIVE TenTo(_)
TenTo(k) == IF k = 0 THEN 1 ELSE 10 * TenTo(k - 1)

\* the integers a depth or limit of the model can write
IntegerRange == (-Max(MaxNum, TenTo(MaxStrLen)))..Max(MaxNum, TenTo(MaxStrLen))

\* the integers each string writes (none when it is no decimal literal)
Written ==
  [s \in StringsUpTo(MaxStrLen) |-> {n \in IntegerRange : s \in LiteralsOf(n)}]

\* the integers the value v stands for, as a number or as a numeric string
IntegersOf(v) ==
  IF v.kind = "number" THEN {v.num}
  ELSE IF v.kind = "string" THEN Written[v.str]
  ELSE {}

\* C9: an integer-valued depth or limit (a number or a numeric string) is
\* clamped to the nearest bound of [1,3] resp. [1,30]; an absent depth yields
\* 2 and an absent limit 20; parseGraphParams applied to its own output
\* returns the same values.
C9_ClampDefaultIdempotent ==
  /\ pstage \in {"handler", "build"} =>
       /\ \A n \in IntegersOf(rawDepth) : parsed.depth = ClampTo(n, 1, 3)
       /\ \A n \in IntegersOf(rawLimit) : parsed.limit = ClampTo(n, 1, 30)
       /\ rawDepth = Undefined => parsed.depth = 2
       /\ rawLimit = Undefined => parsed.limit = 20
  /\ pstage = "build" => reparsed = parsed

\* depth "99" and limit "-5" went through the handler and buildGraph
C9_Witness ==
  /\ pstage = "build"
  /\ rawDepth = StringValue(<<"9", "9">>)
  /\ rawLimit = StringValue(<<"-", "5">>)
  /\ parsed = [depth |-> 3, limit |-> 1]
  /\ reparsed = parsed

\* v is a string that writes no integer
NonNumeric(v) == v.kind = "string" /\ Written[v.str] = {}

LeadingIntegers(s) ==
  UNION {Written[SubSeq(s, 1, k)] : k \in {j \in 1..(Len(s) - 1) : ~IsDigit(s[j + 1])}}

BeginsWithNoInteger(s) ==
  \/ s = <<>>
  \/ ~IsDigit(s[1]) /\ ~(s[1] = "-" /\ Len(s) >= 2 /\ IsDigit(s[2]))

SeedUnparseable == toOpenAlexId(seedInput) = Null

\* C11: when the seed identifier cannot be normalized, buildGraph fails with
\* BAD_WORK_ID and no provider request is issued at any point of the request;
\* the handler answers 400, which differs from the status of NOT_FOUND (404)
\* and of an upstream failure (502).
C11_BadIdNoRequest ==
  /\ SeedUnparseable =>
       /\ DOMAIN requests = {}
       /\ phase # "idle" => phase = "failed" /\ result = "BAD_WORK_ID"
  /\ result = "BAD_WORK_ID" =>
       /\ SeedUnparseable
       /\ status = 400
       /\ status # StatusOf("NOT_FOUND")
       /\ status # StatusOf("UPSTREAM")
       /\ StatusOf("NOT_FOUND") = 404
       /\ StatusOf("UPSTREAM") = 502

\* a request with an unparseable seed has been answered
C11_Witness ==
  /\ SeedUnparseable
  /\ phase = "failed"
  /\ result = "BAD_WORK_ID"
  /\ status = 400
  /\ DOMAIN requests = {}

\* the seed identifier normalizes and the provider has no record of it
SeedAbsent == ~SeedUnparseable /\ ~db[toOpenAlexId(seedInput)].present

\* C12: when the seed identifier normalizes but the provider has no record of
\* it, buildGraph fails with NOT_FOUND after exactly one provider lookup: no
\* batch or citer fetch is issued and no node or link is created.
C12_NotFoundAfterOneLookup ==
  /\ (SeedAbsent /\ phase # "idle" /\ failures = {}) => result = "NOT_FOUND"
  /\ result = "NOT_FOUND" =>
       /\ SeedAbsent
       /\ phase = "failed"
       /\ DOMAIN requests = {SeedLookup}
       /\ requests[SeedLookup] = 1
       /\ nodeMap = <<>>
       /\ linkMap = <<>>
       /\ outNodes = <<>>
       /\ outLinks = <<>>

\* the lookup of an absent seed has been answered
C12_Witness ==
  /\ SeedAbsent
  /\ result = "NOT_FOUND"
  /\ requests = Issue(NoRequests, {SeedLookup})

\* a request that failed never returns a graph afterwards
FailureIsFinal == phase = "failed" => phase' = "failed" /\ result' = result /\ status' = status

\* C13: when a provider fetch of a request (the seed lookup, a batch fetch or a
\* citers fetch, on either side, at any level) answers with a non-success
\* response, the request ends in failure and never returns a graph, and the
\* failed fetch is not issued again.
C13_UpstreamFailureAborts ==
  /\ [](failures # {} =>
          /\ phase = "failed"
          /\ result = "UPSTREAM"
          /\ status = 502
          /\ outNodes = <<>>
          /\ outLinks = <<>>
          /\ \A f \in failures : f \in DOMAIN requests /\ requests[f] = 1)
  /\ [][FailureIsFinal]_vars

\* a citers fetch of level 2 failed after level 1 had added a node, and the
\* request is answered as an upstream failure
C13_Witness ==
  /\ \E f \in failures : f.kind = "citers" /\ f.level = 2
  /\ Len(nodeMap) >= 2
  /\ phase = "failed"
  /\ result = "UPSTREAM"

RECURSIVE ExpandSideAlone(_, _, _, _, _, _, _)
\* expandSide(side) run from level lvl to its return with no other callback
\* in between: every level's fetches answer, then the level commits
ExpandSideAlone(d, side, lvl, dep, lim, front, g) ==
  IF ~LoopContinues(lvl, dep, front) THEN g
  ELSE LET par == LevelParents(g.workCache, d, front)
           ppl == perParentLimitOf(lim, Len(front))
           sets == [k \in DOMAIN par |-> ExpandParent(d, par[k], side, ppl)]
           limited == LimitedOf(sets, lim)
       IN ExpandSideAlone(d, side, lvl + 1, dep, lim, DedupIds(limited, <<>>),
                          CommitAll(limited, side, lvl, g))

\* buildGraph run on provider data d with the references side finishing
\* before the cited_by side starts
BuildAlone(d, seed, dep, lim) ==
  LET c == getWorkById(d, seed)
      g0 == [nodeMap |-> addNode(<<>>, c, "center", 0), linkMap |-> <<>>,
             workCache |-> cacheWork(EmptyCache, c)]
      g1 == ExpandSideAlone(d, "references", 1, dep, lim, <<c.id>>, g0)
      g2 == ExpandSideAlone(d, "cited_by", 1, dep, lim, <<c.id>>, g1)
      links == FinalLinks(g2.nodeMap, g2.linkMap)
  IN [nodes |-> ConnectedNodes(g2.nodeMap, ConnectedNodeIds(c.id, links)),
      links |-> links]

\* C14: for a fixed seed, depth, limit and provider data, the set of output
\* nodes (with side and depth) and the set of output links are those of the
\* run in which the references side finishes before the cited_by side starts,
\* whatever the order in which the responses arrived and the sides interleaved.
C14_Deterministic ==
  (Returned /\ revisions = 0) =>
    LET alone == BuildAlone(db, toOpenAlexId(seedInput), depth, limit)
    IN /\ Range(outNodes) = Range(alone.nodes)
       /\ Range(outLinks) = Range(alone.links)

\* a graph returned by an execution that inserted the nodes in another order
\* than the sequential run, with a node reached by both sides at different levels
C14_Witness ==
  /\ Returned
  /\ revisions = 0
  /\ outNodes # BuildAlone(db, toOpenAlexId(seedInput), depth, limit).nodes
  /\ \E i \in DOMAIN outNodes :
       /\ outNodes[i].side = "both"
       /\ \E a, b \in accepted :
            a[4] = outNodes[i].id /\ b[4] = outNodes[i].id /\ a[1] # b[1] /\ a[2] # b[2]

\* buildGraph has settled: it returned a graph or it threw
Settled == phase \in {"returned", "failed"}

\* no level beyond depth is entered and no fetch is issued for one
LevelsBounded ==
  /\ \A s \in Sides : level[s] <= depth + 1
  /\ \A f \in DOMAIN requests : f.level <= depth

\* a side stops at the first level that commits nothing: it has returned, and
\* every fetch of a level beyond the first is for a child the level before accepted
StopsOnEmptyFrontier ==
  /\ \A s \in Sides : \A lvl \in 1..depth :
       (Committed(s, lvl) /\ ~\E a \in accepted : a[1] = s /\ a[2] = lvl) =>
         sideDone[s] /\ level[s] = lvl + 1
  /\ \A f \in DOMAIN requests :
       f.level >= 2 => \E a \in accepted : a[1] = f.side /\ a[2] = f.level - 1 /\ a[4] = f.id

\* the seed has no references and no work cites it
SeedIsolated ==
  /\ center.id # 0
  /\ center.referenced_works = <<>>
  /\ \A w \in Works : db[w].present => center.id \notin Range(db[w].referenced_works)

\* C15: when every provider fetch completes, buildGraph settles, also on data
\* with citation cycles: each side enters at most depth levels and stops at the
\* first level whose frontier is empty, issuing no further fetch; a seed with
\* no references and no citers yields the center node alone and no link.
C15_Terminates ==
  /\ <>Settled
  /\ [](LevelsBounded /\ StopsOnEmptyFrontier)
  /\ []((Returned /\ SeedIsolated) =>
          /\ Len(outNodes) = 1
          /\ outNodes[1].id = center.id
          /\ outNodes[1].side = "center"
          /\ outLinks = <<>>)

\* a request returned after a side followed a citation cycle back to the seed
\* at level 3
C15_Witness ==
  /\ Returned
  /\ depth = 3
  /\ \E a \in accepted : a[2] = 3 /\ a[4] = center.id

\* the temporal filter kept the child of an answered fetch
KeptBy(a, child) == child.id \in a.kept

\* C16: the temporal filter accepts a candidate whenever the parent's year or
\* the child's year is unknown (null), on both sides; it rejects only when
\* both years are known and child.year > parent.year (references) or
\* child.year < parent.year (cited_by).
C16_UnknownYearAccepted ==
  \A a \in answers : \A i \in DOMAIN a.fetched :
    LET child == a.fetched[i]
    IN /\ (a.parent.year = Null \/ child.year = Null) => KeptBy(a, child)
       /\ ~KeptBy(a, child) =>
            /\ Known(a.parent.year)
            /\ Known(child.year)
            /\ IF a.side = "references" THEN child.year > a.parent.year
               ELSE child.year < a.parent.year

\* the calls made for work id, in order
CallsFor(id) == SelectSeq(calls, LAMBDA c : c.id = id)

\* the side the widening rule gives a node called with the sides of S
WidenedSide(S) ==
  IF "center" \in S THEN "center"
  ELSE IF {"backward", "forward"} \subseteq S THEN "both"
  ELSE CHOOSE side \in S : TRUE

\* side a is side b or narrower: backward and forward lie below both, which
\* lies below center
NotWider(a, b) ==
  \/ a = b
  \/ b = "center"
  \/ b = "both" /\ a \in {"backward", "forward"}

MergedAsStated ==
  \A id \in MergeIds :
    LET cs == CallsFor(id)
    IN IF cs = <<>> THEN ~HasId(mergeMap, id)
       ELSE /\ Cardinality({i \in DOMAIN mergeMap : mergeMap[i].id = id}) = 1
            /\ NodeOf(mergeMap, id).side = WidenedSide({cs[i].side : i \in DOMAIN cs})
            /\ NodeOf(mergeMap, id).depth = MinOf({cs[i].depth : i \in DOMAIN cs})

NeverNarrowed ==
  \A id \in MergeIds :
    HasId(mergeMap, id) =>
      /\ HasId(mergeMap', id)
      /\ NotWider(NodeOf(mergeMap, id).side, NodeOf(mergeMap', id).side)
      /\ NodeOf(mergeMap', id).depth <= NodeOf(mergeMap, id).depth

\* C17: after any sequence of addNode calls for a work id, in any order, the
\* node's side is center if a call used center, else both if the calls
\* included backward and forward, else the single side used; the side is never
\* narrowed, and the depth is the minimum of the depths passed.
C17_SideLattice == []MergedAsStated /\ [][NeverNarrowed]_vars

\* work 1 was added as forward at depth 1, then as backward at depth 3, then
\* as forward again: it is both, at depth 1
C17_Witness ==
  /\ Len(calls) = 3
  /\ calls[1] = [id |-> 1, side |-> "forward", depth |-> 1]
  /\ calls[2] = [id |-> 1, side |-> "backward", depth |-> 3]
  /\ calls[3] = [id |-> 1, side |-> "forward", depth |-> 2]
  /\ NodeOf(mergeMap, 1).side = "both"
  /\ NodeOf(mergeMap, 1).depth = 1

\* the (parent, child) pairs the answered tasks of the current level of side s
\* have collected, before the dedup, the re-rank and the truncation
Collected(s) == Flat(expansionSets[s])

\* over every limit the code allows, a frontier of at most limit members asks
\* for at most limit children in all
BudgetDivided ==
  \A lim \in LIMIT_MIN..LIMIT_MAX : \A n \in 1..lim : n * perParentLimitOf(lim, n) <= lim

\* C18: at every level of each side the pairs collected from all frontier
\* members, counted before the global re-rank and truncation, number at most
\* limit; so the frontier never has more than limit members, a level adds at
\* most limit nodes and links per side, and the truncation discards no pair.
C18_FanOutBounded ==
  /\ BudgetDivided
  /\ \A s \in Sides :
    /\ Len(Collected(s)) <= limit
    /\ Len(frontier[s]) <= limit
    /\ frontier[s] # <<>> =>
         /\ Len(frontier[s]) * perParentLimitOf(limit, Len(frontier[s])) <= limit
         /\ \A a \in answers :
              (a.side = s /\ a.level = level[s]) =>
                Len(a.fetched) <= perParentLimitOf(limit, Len(frontier[s]))
    /\ Len(LimitedOf(expansionSets[s], limit)) = Len(UniqueByChild(Collected(s), <<>>))
    /\ \A lvl \in 1..depth :
         Cardinality({a \in accepted : a[1] = s /\ a[2] = lvl}) <= limit

\* a level with two parents has all its answers, and they collected limit pairs
C18_Witness ==
  \E s \in Sides :
    /\ phase = "running"
    /\ Len(frontier[s]) = 2
    /\ pending[s] = {}
    /\ ~sideDone[s]
    /\ \A k \in DOMAIN expansionSets[s] : expansionSets[s][k] # <<>>
    /\ Len(Collected(s)) = limit

RECURSIVE MergeNodes(_, _)
\* the node map a with the nodes of b merged into it by the node-merge rule
MergeNodes(a, b) ==
  IF b = <<>> THEN a
  ELSE MergeNodes(addNode(a, Head(b), Head(b).side, Head(b).depth), Tail(b))

RECURSIVE MergeLinks(_, _)
MergeLinks(a, b) ==
  IF b = <<>> THEN a
  ELSE MergeLinks(addLink(a, Head(b).source, Head(b).target, Head(b).type, Head(b).direction),
                  Tail(b))

\* the maps of the two sides merged once both have finished
MergedMaps ==
  [nodeMap |-> MergeNodes(ownMaps["references"].nodeMap, ownMaps["cited_by"].nodeMap),
   linkMap |-> MergeLinks(ownMaps["references"].linkMap, ownMaps["cited_by"].linkMap)]

\* the (id, side, depth) of the nodes of a node map
NodeShape(nodes) == {<<nodes[i].id, nodes[i].side, nodes[i].depth>> : i \in DOMAIN nodes}

BothSidesFinished == phase \in {"running", "returned"} /\ \A s \in Sides : sideDone[s]

\* the graph the final assembly makes of the merged maps
MergedOutput ==
  LET links == FinalLinks(MergedMaps.nodeMap, MergedMaps.linkMap)
  IN [nodes |-> ConnectedNodes(MergedMaps.nodeMap, ConnectedNodeIds(center.id, links)),
      links |-> links]

\* C19: the two sides writing into the same node, link and work maps while
\* they run concurrently give the node set (id, side, depth) and link set that
\* each side filling its own node and link maps, merged by the node-merge
\* rule after both sides have finished, gives; with unchanged provider data
\* the returned graphs agree as well.
C19_SharedEqualsMerged ==
  /\ BothSidesFinished =>
       /\ NodeShape(nodeMap) = NodeShape(MergedMaps.nodeMap)
       /\ LinkKeys(linkMap) = LinkKeys(MergedMaps.linkMap)
       /\ NoDuplicateIds(MergedMaps.nodeMap)
  /\ (Returned /\ revisions = 0) =>
       /\ NodeShape(outNodes) = NodeShape(MergedOutput.nodes)
       /\ LinkKeys(outLinks) = LinkKeys(MergedOutput.links)

\* both sides finished after reaching a same work at different levels, the
\* cited_by side having written it before the references side did
C19_Witness ==
  /\ BothSidesFinished
  /\ \E i \in DOMAIN nodeMap :
       /\ nodeMap[i].side = "both"
       /\ \E a, b \in accepted :
            /\ a[4] = nodeMap[i].id /\ b[4] = nodeMap[i].id
            /\ a[1] = "references" /\ b[1] = "cited_by" /\ a[2] # b[2]
  /\ nodeMap # MergedMaps.nodeMap

\* ---------------------------------------------------------------- C20
\* what the call with state r has settled to is what the same call settles to
\* when no other call runs: the same error, or the same nodes and links
SettledAsAlone(r) ==
  LET id == toOpenAlexId(r.seedInput)
  IN /\ r.phase = "failed" =>
          /\ id = Null \/ ~db[id].present
          /\ r.result = (IF id = Null THEN "BAD_WORK_ID" ELSE "NOT_FOUND")
          /\ r.nodeMap = <<>> /\ r.linkMap = <<>>
     /\ r.phase = "returned" =>
          /\ id # Null /\ db[id].present
          /\ LET alone == BuildAlone(db, id, r.depth, r.limit)
             IN /\ Range(r.outNodes) = Range(alone.nodes)
                /\ Range(r.outLinks) = Range(alone.links)

\* C20: two buildGraph calls whose steps interleave in any way, against the
\* same provider data, each settle to the outcome the call has when it runs
\* alone (the same error, or the same set of nodes and the same set of links).
C20_RequestsIsolated ==
  /\ SettledAsAlone(RunningRequest)
  /\ SettledAsAlone(parked)

\* one call has returned its graph while the other, started from another seed,
\* is between two levels with nodes of its own committed; a work is a node of both
C20_Witness ==
  /\ Returned
  /\ parked.phase = "running"
  /\ toOpenAlexId(parked.seedInput) # toOpenAlexId(seedInput)
  /\ Len(outNodes) >= 2
  /\ Len(parked.nodeMap) >= 2
  /\ \E i \in DOMAIN nodeMap : \E j \in DOMAIN parked.nodeMap :
       /\ nodeMap[i].id = parked.nodeMap[j].id
       /\ nodeMap[i].side # parked.nodeMap[j].side

\* ---------------------------------------------------------------- C21
\* the ids of the argument that normalize
Wanted == {normalizeId(batchInput[i]) : i \in DOMAIN batchInput} \ {Null}

\* where the id is among the chunks
ChunkPositions(id) ==
  {p \in {<<k, i>> : k \in DOMAIN batchChunks, i \in 1..CHUNK_SIZE} :
     p[2] \in DOMAIN batchChunks[p[1]] /\ batchChunks[p[1]][p[2]] = id}

ChunkedOnce ==
  /\ \A k \in DOMAIN batchChunks :
       /\ Len(batchChunks[k]) \in 1..CHUNK_SIZE
       /\ Range(batchChunks[k]) \subseteq Wanted
  /\ \A id \in Wanted : Cardinality(ChunkPositions(id)) = 1

OneRequestPerChunk ==
  /\ Len(batchRequests) = Len(batchChunks)
  /\ \A k \in DOMAIN batchChunks : batchRequests[k].filter = batchChunks[k]

ReturnsUnion ==
  /\ {batchResult[i].id : i \in DOMAIN batchResult} = Wanted \cap batchHas
  /\ Len(batchResult) = Cardinality(Wanted \cap batchHas)

\* C21: once getWorksByIds has passed its first await or returned, the ids that
\* do not normalize are gone, every id that does is at exactly one position of
\* exactly one chunk, no chunk is empty or longer than 40, one request was
\* issued per chunk (none, and [] returned, when no id is left), and the list
\* returned holds exactly one record per wanted id the provider has.
C21_ChunkedLookup ==
  batchPhase # "idle" =>
    /\ ChunkedOnce
    /\ OneRequestPerChunk
    /\ Wanted = {} => batchRequests = <<>> /\ batchPhase = "returned" /\ batchResult = <<>>
    /\ batchPhase = "returned" => ReturnsUnion

\* a call returned from three chunks, the last shorter, whose argument held
\* values that do not normalize and an id in two spellings, with ids the
\* provider has no record of
C21_Witness ==
  /\ batchPhase = "returned"
  /\ Len(batchChunks) = 3
  /\ Len(batchChunks[3]) < CHUNK_SIZE
  /\ \E i \in DOMAIN batchInput : normalizeId(batchInput[i]) = Null
  /\ \E i, j \in DOMAIN batchInput :
       /\ i # j
       /\ batchInput[i] # batchInput[j]
       /\ normalizeId(batchInput[i]) # Null
       /\ normalizeId(batchInput[i]) = normalizeId(batchInput[j])
  /\ Wanted \ batchHas # {}
  /\ batchResult # <<>>

\* ---------------------------------------------------------------- C22
\* the single-record lookups issued so far
Lookups == {f \in DOMAIN requests : f.kind = "lookup"}

FrontierCached ==
  \A s \in Sides : \A k \in DOMAIN frontier[s] :
    getCachedWork(workCache, frontier[s][k]).id = frontier[s][k]

NoParentAbsent ==
  \A s \in Sides :
    /\ \A k \in DOMAIN parents[s] : parents[s][k].id # 0
    /\ ~sideDone[s] => Len(parents[s]) = Len(frontier[s])

\* C22: every member of a frontier (the seed at level 1, the children accepted
\* at the level before afterwards) has its record in the work cache, every
\* parent a level expands resolved to a record, and the only single-record
\* lookup a request issues is the one for the seed, issued once.
C22_FrontierCached ==
  /\ FrontierCached
  /\ NoParentAbsent
  /\ Lookups \subseteq {SeedLookup}
  /\ \A f \in Lookups : requests[f] = 1
  /\ (phase # "idle" /\ ~SeedUnparseable) => Lookups = {SeedLookup}

\* a returned graph of a request that expanded children at level 2 or deeper
\* on both sides, the provider revising or not
C22_Witness ==
  /\ Returned
  /\ Lookups = {SeedLookup}
  /\ \A s \in Sides : \E f \in DOMAIN requests :
       f.side = s /\ f.level >= 2 /\ f.id # center.id

\* ---------------------------------------------------------------- C23
\* every record the request has received from the provider so far
RecordsSeen ==
  {center}
  \cup {a.parent : a \in answers}
  \cup UNION {Range(a.fetched) : a \in answers}

\* the provider answered with one record per work id
SameRecordEveryFetch == \A x, y \in RecordsSeen : x.id = y.id => x = y

\* C23: when every fetch of the request answered with the same record for a
\* given work id, every link of the link map passes the final temporal
\* re-validation and every node of the node map is the center or an end of a
\* link, so the returned nodes and links are the node map and the link map as
\* they stand when both sides have finished.
C23_AssemblyKeepsAll ==
  (BothSidesFinished /\ SameRecordEveryFetch) =>
    /\ \A i \in DOMAIN linkMap : isLinkTemporallyConsistent(linkMap[i], nodeMap)
    /\ \A i \in DOMAIN nodeMap :
         nodeMap[i].id \in ConnectedNodeIds(center.id, linkMap)
    /\ Returned => outLinks = linkMap /\ outNodes = nodeMap

\* a returned graph with a link on each side, between works of different
\* years, from a request whose fetches agreed on every record
C23_Witness ==
  /\ Returned
  /\ SameRecordEveryFetch
  /\ \E i, j \in DOMAIN outLinks :
       /\ outLinks[i].type = "references"
       /\ outLinks[j].type = "cited_by"
  /\ \E i \in DOMAIN outLinks : \E m, n \in DOMAIN outNodes :
       /\ outNodes[m].id = outLinks[i].source
       /\ outNodes[n].id = outLinks[i].target
       /\ outNodes[m].year # outNodes[n].year

====
